---- MODULE Spec2Model ----
(***************************************************************************)
(* Model of completebox.py: the panel prompt session (_PanelPromptSession) *)
(* with its key handlers, candidate filtering and panel rendering, and the *)
(* helpers _truncate, _split_completion_query and bash_completer.          *)
(*                                                                         *)
(* A Python str is modelled as a sequence of one-character strings.        *)
(* Characters outside ASCII are written as named tokens ("<ellipsis>").    *)
(***************************************************************************)
EXTENDS Integers, Sequences, FiniteSets, TLC

VARIABLES
    choices,         \* self.choices: the static list of the session
    completer,       \* TRUE iff self.completer is not None
    max_rows,        \* self.max_rows
    input_text,      \* self.input_text: the edit buffer
    filtered_items,  \* self.filtered_items
    selected_index,  \* self.selected_index
    status,          \* "Editing", "Accepted" (app.exit(result=..)), "Cancelled"
    result,          \* the value app.run() returns once Accepted
    last_key,        \* the key event whose handler ran last ("init" after __init__)
    consulted,       \* <<q>> if the last handler called the completer with q, else <<>>
    raised,          \* TRUE iff the completer call of the last handler raised
    fn_pc,           \* pure-function harness: "idle", "args", "truncate", "split", "bash"
    fn_text,         \* pure-function harness: the text argument
    fn_width,        \* pure-function harness: the width argument
    fn_out,          \* pure-function harness: the value returned
    fn_proc          \* pure-function harness: what subprocess.run did

vars == <<choices, completer, max_rows, input_text, filtered_items, selected_index,
          status, result, last_key, consulted, raised, fn_pc, fn_text, fn_width, fn_out,
          fn_proc>>

sessionVars == <<choices, completer, max_rows, input_text, filtered_items,
                 selected_index, status, result, last_key, consulted, raised>>

fnVars == <<fn_pc, fn_text, fn_width, fn_out, fn_proc>>

(***************************************************************************)
(* Bounds of the model.                                                    *)
(***************************************************************************)
MaxBuf == 3        \* printable keys are accepted while len(input_text) < MaxBuf
MaxRowsBound == 2  \* max_rows is drawn from 0..MaxRowsBound
MaxTextLen == 4    \* _truncate / _split_completion_query: len(text) <= MaxTextLen
MaxWidth == 5      \* _truncate: width in -1..MaxWidth

\* The keys typed in the model: a subset of the characters run() binds.
KeyChars == {"a", "b", "B", " "}

(***************************************************************************)
(* Strings.                                                                *)
(***************************************************************************)
Min(a, b) == IF a <= b THEN a ELSE b

Max(a, b) == IF a >= b THEN a ELSE b

Ellipsis == "<ellipsis>"

\* str.isspace() of one character, for the characters of the model.
IsSpaceChar(c) == c \in {" ", "\t", "\n"}

\* Mutant: only the empty string counts as blank (`not query`).
IsBlankEmptyOnly(s) == s = <<>>

\* `not s.strip()`: s is empty or consists only of whitespace.
IsBlank(s) == \A i \in 1..Len(s) : IsSpaceChar(s[i])

LowerChar(c) ==
    CASE c = "A" -> "a"
      [] c = "B" -> "b"
      [] c = "C" -> "c"
      [] OTHER -> c

\* str.lower()
Lower(s) == [i \in 1..Len(s) |-> LowerChar(s[i])]

\* `sub in s`
Contains(s, sub) ==
    \E i \in 0..(Len(s) - Len(sub)) : SubSeq(s, i + 1, i + Len(sub)) = sub

\* s[:n] for n >= 0
Prefix(s, n) == SubSeq(s, 1, Min(n, Len(s)))

\* fill * n
Repeat(fill, n) == [i \in 1..n |-> fill]

\* str.ljust(width)
Ljust(s, width) == IF Len(s) >= width THEN s ELSE s \o Repeat(" ", width - Len(s))

\* str.center(width, fill): CPython puts the extra fill character on the left
\* when both the margin and the width are odd.
Center(s, width, fill) ==
    IF Len(s) >= width THEN s
    ELSE LET marg == width - Len(s)
             left == (marg \div 2) + (IF marg % 2 = 1 /\ width % 2 = 1 THEN 1 ELSE 0)
         IN Repeat(fill, left) \o s \o Repeat(fill, marg - left)

\* All sequences over S of length <= n.
SeqsUpTo(S, n) == UNION {[1..k -> S] : k \in 0..n}

(***************************************************************************)
(* _split_completion_query                                                 *)
(***************************************************************************)
\* The position of the last " " of text, 0 when there is none (str.rpartition).
LastSpace(text) ==
    IF \E i \in 1..Len(text) : text[i] = " "
    THEN CHOOSE i \in 1..Len(text) :
            text[i] = " " /\ \A j \in (i + 1)..Len(text) : text[j] # " "
    ELSE 0

\* Mutant: the lead drops the separator (head instead of head + sep).
SplitDropSep(text) ==
    IF text = <<>> THEN <<<<>>, <<>>>>
    ELSE IF text[Len(text)] = " " THEN <<text, <<>>>>
    ELSE LET p == LastSpace(text)
         IN IF p > 0
            THEN <<SubSeq(text, 1, p - 1), SubSeq(text, p + 1, Len(text))>>
            ELSE <<<<>>, text>>

\* _split_completion_query(text) -> (lead, fragment)
split_completion_query(text) ==
    IF text = <<>> THEN <<<<>>, <<>>>>
    ELSE IF text[Len(text)] = " " THEN <<text, <<>>>>
    ELSE LET p == LastSpace(text)
         IN IF p > 0
            THEN <<SubSeq(text, 1, p), SubSeq(text, p + 1, Len(text))>>
            ELSE <<<<>>, text>>

(***************************************************************************)
(* bash_completer                                                          *)
(***************************************************************************)
\* No subprocess has been run.
NoProcess == [launch |-> "none", returncode |-> 0, stdout |-> <<>>]

\* What subprocess.run(["bash", "-ic", ...], check=False) may do: fail to find
\* bash (FileNotFoundError), or run it to an exit status with some standard
\* output. The outputs hold an empty line and a repeated line.
ProcessOutcomes ==
    {[launch |-> "FileNotFoundError", returncode |-> 0, stdout |-> <<>>]} \cup
    {[launch |-> "ok", returncode |-> rc, stdout |-> out] :
        rc \in {0, 1},
        out \in {<<>>, <<"a", "\n">>, <<"a", "b", "\n", "\n", "a", "b", "\n", "a">>}}

RECURSIVE SplitLines(_)
\* str.splitlines() of a text whose only line end is "\n"
SplitLines(text) ==
    IF text = <<>> THEN <<>>
    ELSE IF \E i \in 1..Len(text) : text[i] = "\n"
         THEN LET p == CHOOSE i \in 1..Len(text) :
                          text[i] = "\n" /\ \A j \in 1..(i - 1) : text[j] # "\n"
              IN <<SubSeq(text, 1, p - 1)>> \o SplitLines(SubSeq(text, p + 1, Len(text)))
         ELSE <<text>>

RECURSIVE Dedup(_, _)
\* The loop over candidates: lead + candidate is appended unless already seen.
Dedup(lead, candidates) ==
    IF candidates = <<>> THEN <<>>
    ELSE LET n == Len(candidates)
             before == Dedup(lead, SubSeq(candidates, 1, n - 1))
             full == lead \o candidates[n]
         IN IF \E i \in 1..Len(before) : before[i] = full
            THEN before ELSE Append(before, full)

\* bash_completer(query), `proc` being what subprocess.run does
bash_completer(query, proc) ==
    LET lead == split_completion_query(query)[1]
    IN IF proc.launch = "FileNotFoundError" THEN <<>>
       ELSE Dedup(lead, SelectSeq(SplitLines(proc.stdout), LAMBDA line : line # <<>>))

(***************************************************************************)
(* _truncate                                                               *)
(***************************************************************************)
\* Mutant: keeps width characters before the ellipsis (text[:width] + "...").
TruncateOffByOne(text, width) ==
    IF width <= 0 THEN <<>>
    ELSE IF Len(text) <= width THEN text
    ELSE IF width = 1 THEN <<Ellipsis>>
    ELSE Prefix(text, width) \o <<Ellipsis>>

\* Mutant: a hard cut with no ellipsis marker (text[:width]).
TruncateHardCut(text, width) ==
    IF width <= 0 THEN <<>>
    ELSE IF Len(text) <= width THEN text
    ELSE Prefix(text, width)

\* _PanelPromptSession._truncate(text, width)
truncate(text, width) ==
    IF width <= 0 THEN <<>>
    ELSE IF Len(text) <= width THEN text
    ELSE IF width = 1 THEN <<Ellipsis>>
    ELSE Prefix(text, width - 1) \o <<Ellipsis>>

(***************************************************************************)
(* The session: inputs of the model.                                       *)
(***************************************************************************)
\* The static lists a session is constructed with. The first holds a choice
\* ("a") that is a substring of the others and differs from another only by
\* case; the second holds a duplicate and an empty string; the third is the
\* empty list (`self.choices or []` when choices is None or empty).
ChoiceLists ==
    { << <<"a", "b">>, <<"b", " ", "a">>, <<"B", "a">>, <<"a">> >>,
      << <<"b", "b">>, <<>>, <<"a", "b">>, <<"b", "b">> >>,
      <<>> }

\* What one call of the external completer may do: raise, or return a list.
\* The lists include an empty string, a duplicate and a whitespace-only string.
CompleterLists ==
    { <<>>,
      << <<"a", "b">>, <<>>, <<"a", " ", "b">>, <<"a", "b">> >>,
      << <<" ">>, <<"b">> >> }

CompleterOutcomes ==
    {[raised |-> TRUE, out |-> <<>>]} \cup
    {[raised |-> FALSE, out |-> l] : l \in CompleterLists}

\* The fields of the session object the methods read and write.
Self ==
    [input_text |-> input_text, filtered_items |-> filtered_items,
     selected_index |-> selected_index, choices |-> choices,
     completer |-> completer, max_rows |-> max_rows]

(***************************************************************************)
(* filter_items                                                            *)
(***************************************************************************)
\* Mutant: every recompute resets the selection to the first row.
ClampIndexReset(index, n) == 0

\* Mutant: clamps to len(list) instead of len(list) - 1.
ClampIndexOffByOne(index, n) == Min(index, Max(n, 0))

\* min(self.selected_index, max(len(self.filtered_items) - 1, 0))
ClampIndex(index, n) == Min(index, Max(n - 1, 0))

\* Mutant: the comparison is case-sensitive (no .lower()).
StaticFilterCaseSensitive(source, query) ==
    SelectSeq(source, LAMBDA item : Contains(item, query))

\* [item for item in source if lowered in item.lower()]
StaticFilter(source, query) ==
    SelectSeq(source, LAMBDA item : Contains(Lower(item), Lower(query)))

\* Mutant: the completions are taken as returned (no `if c`).
CandidatesKeepEmpty(self, outcome) ==
    IF IsBlank(self.input_text) THEN <<>>
    ELSE IF self.completer
         THEN IF outcome.raised THEN <<>> ELSE outcome.out
         ELSE StaticFilter(self.choices, self.input_text)

\* Mutant: when the completer raises, the old list is kept (`except: return`).
CandidatesKeepOnRaise(self, outcome) ==
    IF IsBlank(self.input_text) THEN <<>>
    ELSE IF self.completer
         THEN LET completions == IF outcome.raised THEN self.filtered_items
                                 ELSE outcome.out
              IN SelectSeq(completions, LAMBDA c : c # <<>>)
         ELSE StaticFilter(self.choices, self.input_text)

\* The list filter_items assigns to self.filtered_items; `outcome` is what the
\* completer does if it is called.
Candidates(self, outcome) ==
    IF IsBlank(self.input_text) THEN <<>>
    ELSE IF self.completer
         THEN LET completions == IF outcome.raised THEN <<>> ELSE outcome.out
              IN SelectSeq(completions, LAMBDA c : c # <<>>)
         ELSE StaticFilter(self.choices, self.input_text)

\* The queries filter_items passes to the completer: none, or the buffer.
CompleterQuery(self) ==
    IF IsBlank(self.input_text) \/ ~self.completer THEN <<>> ELSE <<self.input_text>>

\* Mutant: the new candidates are appended to the old list instead of replacing it.
FilterItemsAccumulate(self, outcome) ==
    LET items == self.filtered_items \o Candidates(self, outcome)
    IN [self EXCEPT !.filtered_items = items,
                    !.selected_index = ClampIndex(self.selected_index, Len(items))]

\* _PanelPromptSession.filter_items
filter_items(self, outcome) ==
    LET items == Candidates(self, outcome)
    IN [self EXCEPT !.filtered_items = items,
                    !.selected_index = ClampIndex(self.selected_index, Len(items))]

(***************************************************************************)
(* _accept_selection and the enter handler's result                        *)
(***************************************************************************)
\* Mutant: takes the first candidate whatever the selection.
AcceptFirst(self) ==
    IF self.filtered_items # <<>>
    THEN [self EXCEPT !.input_text = self.filtered_items[1]]
    ELSE self

\* _PanelPromptSession._accept_selection (Python indexes from 0)
accept_selection(self) ==
    IF self.filtered_items # <<>>
    THEN [self EXCEPT !.input_text = self.filtered_items[self.selected_index + 1]]
    ELSE self

\* Mutant: enter prefers the highlighted candidate whenever there is one.
EnterPrefersHighlighted(self) ==
    IF self.filtered_items # <<>>
    THEN self.filtered_items[self.selected_index + 1]
    ELSE self.input_text

\* The text the enter handler hands to event.app.exit(result=text).
EnterResult(self) ==
    IF self.input_text = <<>> /\ self.filtered_items # <<>>
    THEN self.filtered_items[self.selected_index + 1]
    ELSE self.input_text

(***************************************************************************)
(* Rendering. A FormattedText is a sequence of <<style, text>> fragments.  *)
(***************************************************************************)
panel_width == 46

panel_inner_width == panel_width - 4

PromptText == <<"<prompt-arrow>", " ">>

NoResultsTitle == <<"N", "o", " ", "r", "e", "s", "u", "l", "t", "s">>

SuggestionsTitle == <<"S", "u", "g", "g", "e", "s", "t", "i", "o", "n", "s">>

NoResultsMessage ==
    <<"T", "i", "d", "a", "k", " ", "a", "d", "a", " ", "h", "a", "s", "i", "l">>

HintText ==
    <<"T", "a", "b", ":", " ", "i", "s", "i", " ", "d", "a", "r", "i", " ",
      "p", "i", "l", "i", "h", "a", "n", " ", "|", " ",
      "C", "t", "r", "l", "+", "C", ":", " ", "b", "a", "t", "a", "l">>

\* _panel_header(title)
panel_header(title) ==
    LET inner == <<" ">> \o title \o <<" ">>
        header == Center(inner, panel_width - 2, "<box-horizontal>")
    IN << <<"class:panel-border",
            <<"<box-top-left>">> \o header \o <<"<box-top-right>", "\n">> >> >>

\* _panel_footer()
panel_footer ==
    << <<"class:panel-border",
         <<"<box-bottom-left>">> \o Repeat("<box-horizontal>", panel_width - 2)
             \o <<"<box-bottom-right>", "\n">> >> >>

\* _panel_row(text, style)
panel_row(text, style) ==
    << <<"class:panel-border", <<"<box-vertical>", " ">> >>,
       <<style, Ljust(text, panel_inner_width)>>,
       <<"class:panel-border", <<" ", "<box-vertical>", "\n">> >> >>

\* range(n) as the sequence 0, ..., n - 1; empty when n <= 0.
Range(n) == [k \in 1..Max(n, 0) |-> k - 1]

\* The fragments of the rows drawn one after another by lines.extend(...):
\* each row is a sequence of three fragments.
Rows(rows) ==
    [k \in 1..(3 * Len(rows)) |-> rows[((k - 1) \div 3) + 1][((k - 1) % 3) + 1]]

SelectedMarker == <<"<marker>", " ">>

PlainMarker == <<" ", " ">>

\* The row render_panel draws for idx in range(self.max_rows) when there are
\* suggestions.
SuggestionRow(self, idx) ==
    LET suggestions == Prefix(self.filtered_items, Max(self.max_rows, 0))
    IN IF idx < Len(suggestions)
       THEN LET item == suggestions[idx + 1]
                prefix == IF idx = self.selected_index
                          THEN SelectedMarker ELSE PlainMarker
                content == prefix \o truncate(item, panel_inner_width - Len(prefix))
                style == IF idx = self.selected_index
                         THEN "class:selected-line" ELSE "class:panel-line"
            IN panel_row(content, style)
       ELSE panel_row(<<>>, "class:panel-placeholder")

\* _PanelPromptSession.render_panel
render_panel(self) ==
    IF self.filtered_items = <<>>
    THEN panel_header(NoResultsTitle)
           \o panel_row(truncate(NoResultsMessage, panel_inner_width), "class:no-results")
           \o Rows([k \in DOMAIN Range(self.max_rows - 1) |->
                       panel_row(<<>>, "class:panel-placeholder")])
           \o panel_footer
    ELSE panel_header(SuggestionsTitle)
           \o Rows([k \in DOMAIN Range(self.max_rows) |->
                       SuggestionRow(self, Range(self.max_rows)[k])])
           \o panel_footer

\* _PanelPromptSession.render_content
render_content(self) ==
    << <<"class:prompt", PromptText>>, <<"class:input", self.input_text>> >>
      \o (IF self.input_text # <<>>
          THEN << <<"", <<"\n", "\n">> >> >> \o render_panel(self) \o << <<"", <<"\n">> >> >>
          ELSE <<>>)
      \o << <<"class:footer", HintText>> >>

\* The number of line ends ("\n") in the text of one fragment.
NewlinesIn(text) == Cardinality({i \in 1..Len(text) : text[i] = "\n"})

RECURSIVE LineCount(_)
\* The number of lines a FormattedText draws: its line ends.
LineCount(ft) ==
    IF ft = <<>> THEN 0 ELSE NewlinesIn(ft[1][2]) + LineCount(Tail(ft))

(***************************************************************************)
(* The session: __init__ and the key handlers of run().                    *)
(***************************************************************************)
\* The state after __init__: empty buffer, filter_items() has run once.
SessionInit ==
    /\ choices \in ChoiceLists
    /\ completer \in BOOLEAN
    /\ max_rows \in 0..MaxRowsBound
    /\ input_text = <<>>
    /\ filtered_items = <<>>
    /\ selected_index = 0
    /\ status = "Editing"
    /\ result = <<>>
    /\ last_key = "init"
    /\ consulted = <<>>
    /\ raised = FALSE

\* The handler leaves the session object as `self2`.
Store(self2) ==
    /\ input_text' = self2.input_text
    /\ filtered_items' = self2.filtered_items
    /\ selected_index' = self2.selected_index
    /\ UNCHANGED <<choices, completer, max_rows, fnVars>>

\* The handler sets the buffer to `text` and calls filter_items().
EditAndFilter(key, edited) ==
    \E outcome \in CompleterOutcomes :
        /\ Store(filter_items(edited, outcome))
        /\ consulted' = CompleterQuery(edited)
        /\ raised' = (CompleterQuery(edited) # <<>> /\ outcome.raised)
        /\ last_key' = key
        /\ UNCHANGED <<status, result>>

\* @kb.add("up")
Up ==
    /\ status = "Editing"
    /\ Store(IF filtered_items # <<>> /\ selected_index > 0
             THEN [Self EXCEPT !.selected_index = selected_index - 1]
             ELSE Self)
    /\ consulted' = <<>>
    /\ raised' = FALSE
    /\ last_key' = "up"
    /\ UNCHANGED <<status, result>>

\* Mutant: the guard compares with len(list) instead of len(list) - 1.
DownPastEnd ==
    /\ status = "Editing"
    /\ Store(IF filtered_items # <<>> /\ selected_index < Len(filtered_items)
             THEN [Self EXCEPT !.selected_index = selected_index + 1]
             ELSE Self)
    /\ consulted' = <<>>
    /\ raised' = FALSE
    /\ last_key' = "down"
    /\ UNCHANGED <<status, result>>

\* @kb.add("down")
Down ==
    /\ status = "Editing"
    /\ Store(IF filtered_items # <<>> /\ selected_index < Len(filtered_items) - 1
             THEN [Self EXCEPT !.selected_index = selected_index + 1]
             ELSE Self)
    /\ consulted' = <<>>
    /\ raised' = FALSE
    /\ last_key' = "down"
    /\ UNCHANGED <<status, result>>

\* @kb.add("tab")
Tab ==
    /\ status = "Editing"
    /\ IF filtered_items # <<>>
       THEN EditAndFilter("tab", accept_selection(Self))
       ELSE /\ Store(Self)
            /\ consulted' = <<>>
            /\ raised' = FALSE
            /\ last_key' = "tab"
            /\ UNCHANGED <<status, result>>

\* @kb.add("enter")
Enter ==
    /\ status = "Editing"
    /\ result' = EnterResult(Self)
    /\ status' = "Accepted"
    /\ Store(Self)
    /\ consulted' = <<>>
    /\ raised' = FALSE
    /\ last_key' = "enter"

\* Mutant: escape empties the buffer and forgets to call filter_items().
EscapeNoFilter ==
    /\ status = "Editing"
    /\ Store([Self EXCEPT !.input_text = <<>>])
    /\ consulted' = <<>>
    /\ raised' = FALSE
    /\ last_key' = "escape"
    /\ UNCHANGED <<status, result>>

\* @kb.add("escape")
Escape ==
    /\ status = "Editing"
    /\ EditAndFilter("escape", [Self EXCEPT !.input_text = <<>>])

\* Mutant: backspace drops the last character and forgets filter_items().
BackspaceNoFilter ==
    /\ status = "Editing"
    /\ Store(IF input_text # <<>>
             THEN [Self EXCEPT !.input_text = SubSeq(input_text, 1, Len(input_text) - 1)]
             ELSE Self)
    /\ consulted' = <<>>
    /\ raised' = FALSE
    /\ last_key' = "backspace"
    /\ UNCHANGED <<status, result>>

\* @kb.add("backspace")
Backspace ==
    /\ status = "Editing"
    /\ IF input_text # <<>>
       THEN EditAndFilter("backspace",
                [Self EXCEPT !.input_text = SubSeq(input_text, 1, Len(input_text) - 1)])
       ELSE /\ Store(Self)
            /\ consulted' = <<>>
            /\ raised' = FALSE
            /\ last_key' = "backspace"
            /\ UNCHANGED <<status, result>>

\* @kb.add("c-u")
ClearLine ==
    /\ status = "Editing"
    /\ EditAndFilter("c-u", [Self EXCEPT !.input_text = <<>>])

\* Mutant: the interrupt key exits with the buffer as a result
\* (exit(result=...) in place of exit(exception=KeyboardInterrupt)).
InterruptAccepts ==
    /\ status = "Editing"
    /\ status' = "Accepted"
    /\ result' = input_text
    /\ Store(Self)
    /\ consulted' = <<>>
    /\ raised' = FALSE
    /\ last_key' = "c-c"

\* @kb.add("c-c")
Interrupt ==
    /\ status = "Editing"
    /\ status' = "Cancelled"
    /\ Store(Self)
    /\ consulted' = <<>>
    /\ raised' = FALSE
    /\ last_key' = "c-c"
    /\ UNCHANGED result

\* @kb.add(char) for each printable character
Printable ==
    /\ status = "Editing"
    /\ Len(input_text) < MaxBuf
    /\ \E c \in KeyChars :
          EditAndFilter("char", [Self EXCEPT !.input_text = input_text \o <<c>>])

FnIdle ==
    /\ fn_pc = "idle"
    /\ fn_text = <<>>
    /\ fn_width = 0
    /\ fn_out = <<>>
    /\ fn_proc = NoProcess

Init == SessionInit /\ FnIdle

Next ==
    \/ Up
    \/ Down
    \/ Tab
    \/ Enter
    \/ Escape
    \/ Backspace
    \/ ClearLine
    \/ Interrupt
    \/ Printable

Spec == Init /\ [][Next]_vars

(***************************************************************************)
(* The pure functions, applied to arguments drawn from bounded sets.       *)
(***************************************************************************)
\* The characters of the texts given to the pure functions.
TextChars == {"a", " ", "\t", "<ellipsis>"}

PureInit ==
    /\ SessionInit
    /\ choices = <<>>
    /\ ~completer
    /\ max_rows = 0
    /\ fn_pc = "args"
    /\ fn_text \in SeqsUpTo(TextChars, MaxTextLen)
    /\ fn_width \in (-1)..MaxWidth
    /\ fn_out = <<>>
    /\ fn_proc = NoProcess

\* _truncate(fn_text, fn_width)
CallTruncate ==
    /\ fn_pc = "args"
    /\ fn_out' = truncate(fn_text, fn_width)
    /\ fn_pc' = "truncate"
    /\ UNCHANGED <<fn_text, fn_width, fn_proc, sessionVars>>

\* _split_completion_query(fn_text)
CallSplit ==
    /\ fn_pc = "args"
    /\ fn_out' = split_completion_query(fn_text)
    /\ fn_pc' = "split"
    /\ UNCHANGED <<fn_text, fn_width, fn_proc, sessionVars>>

\* bash_completer(fn_text), with the subprocess doing any of ProcessOutcomes
CallBashCompleter ==
    /\ fn_pc = "args"
    /\ \E proc \in ProcessOutcomes :
          /\ fn_proc' = proc
          /\ fn_out' = bash_completer(fn_text, proc)
    /\ fn_pc' = "bash"
    /\ UNCHANGED <<fn_text, fn_width, sessionVars>>

PureNext ==
    \/ CallTruncate
    \/ CallSplit
    \/ CallBashCompleter

PureSpec == PureInit /\ [][PureNext]_vars

(***************************************************************************)
(* Properties.                                                             *)
(***************************************************************************)
\* s is empty or holds whitespace only (stated apart from the code's test).
OnlyWhitespace(s) == \A i \in 1..Len(s) : s[i] \in {" ", "\t", "\n"}

\* The candidate the selection highlights (Python index selected_index).
Highlighted == filtered_items[selected_index + 1]

\* C1: in every reachable state of both variants, a non-empty filtered list has
\* 0 <= selected_index < len(filtered list), and an empty one has
\* selected_index = 0.
C1_SelectionInRange ==
    IF filtered_items # <<>>
    THEN 0 <= selected_index /\ selected_index < Len(filtered_items)
    ELSE selected_index = 0

\* C1 witness: a recompute after a printable key left the selection on the last
\* row of a two-candidate list returned by the completer.
C1_Witness ==
    /\ completer
    /\ last_key = "char"
    /\ Len(filtered_items) = 2
    /\ selected_index = 1

\* C2 (as claimed): whenever the panel is drawn it has exactly max_rows + 2
\* lines, for every max_rows >= 0 and every filtered list.
C2_PanelHeight ==
    (max_rows >= 0 /\ input_text # <<>>) =>
        LineCount(render_panel(Self)) = max_rows + 2

\* C3: once enter has ended the session, the result is the buffer verbatim if
\* the buffer is non-empty, else the highlighted candidate if there is one,
\* else the empty string.
C3_EnterResult ==
    status = "Accepted" =>
        /\ last_key = "enter"
        /\ result = (IF input_text # <<>> THEN input_text
                     ELSE IF filtered_items # <<>> THEN Highlighted
                     ELSE <<>>)

\* C3 witness: enter accepted a non-empty buffer while another candidate was
\* highlighted.
C3_Witness ==
    /\ status = "Accepted"
    /\ input_text # <<>>
    /\ filtered_items # <<>>
    /\ Highlighted # input_text
    /\ result = input_text

\* The number of entries of choices that contain text, ignoring case.
ChoicesContaining(text) ==
    Cardinality({k \in 1..Len(choices) : Contains(Lower(choices[k]), Lower(text))})

\* C4 (as claimed): in the static variant a tab on a non-empty filtered list
\* sets the buffer to the highlighted candidate and leaves exactly that one
\* candidate with selected_index 0; on an empty list it changes nothing.
C4_TabNarrowsToOne ==
    [][(~completer /\ last_key' = "tab") =>
          IF filtered_items # <<>>
          THEN /\ input_text' = Highlighted
               /\ filtered_items' = <<Highlighted>>
               /\ selected_index' = 0
          ELSE UNCHANGED <<input_text, filtered_items, selected_index>>]_vars

\* C4 (amended): in the static variant a tab on a non-empty filtered list sets
\* the buffer to the highlighted candidate; the filtered list then holds
\* the choices that contain that candidate ignoring case, the candidate among
\* them, and selected_index is min(previous index, len - 1); the list is
\* exactly that one candidate with selected_index 0 when no other entry of
\* choices contains it. On an empty list tab changes nothing.
C4_TabFillsBuffer ==
    [][(~completer /\ last_key' = "tab") =>
          IF filtered_items # <<>>
          THEN /\ input_text' = Highlighted
               /\ \A i \in 1..Len(filtered_items') :
                     Contains(Lower(filtered_items'[i]), Lower(Highlighted))
               /\ \E i \in 1..Len(filtered_items') : filtered_items'[i] = Highlighted
               /\ Len(filtered_items') = ChoicesContaining(Highlighted)
               /\ selected_index' = Min(selected_index, Len(filtered_items') - 1)
               /\ ChoicesContaining(Highlighted) = 1 =>
                     (filtered_items' = <<Highlighted>> /\ selected_index' = 0)
          ELSE UNCHANGED <<input_text, filtered_items, selected_index>>]_vars

\* C4 witness: in the static variant tab filled the buffer with a candidate of
\* two or more characters, which is now the only candidate, at index 0.
C4_Witness ==
    /\ ~completer
    /\ last_key = "tab"
    /\ Len(input_text) > 1
    /\ filtered_items = <<input_text>>
    /\ selected_index = 0

\* C5: in every reachable state of both variants a buffer that is empty or
\* whitespace-only has an empty filtered list, and no handler passes such a
\* buffer to the completer.
C5_BlankBufferNoCandidates ==
    /\ OnlyWhitespace(input_text) => filtered_items = <<>>
    /\ \A i \in 1..Len(consulted) : ~OnlyWhitespace(consulted[i])

\* C5 witness: with a completer, a printable key produced a non-empty
\* whitespace-only buffer and the completer was not called.
C5_Witness ==
    /\ completer
    /\ last_key = "char"
    /\ input_text # <<>>
    /\ OnlyWhitespace(input_text)
    /\ consulted = <<>>

\* C6 (as claimed): with an empty or whitespace-only buffer the rendered
\* content is the prompt text, the buffer and the hint line, with no panel.
C6_NoPanelWhenBlank ==
    OnlyWhitespace(input_text) =>
        render_content(Self) =
            << <<"class:prompt", PromptText>>, <<"class:input", input_text>>,
               <<"class:footer", HintText>> >>

\* C7: for width >= 0, _truncate(text, width) is at most width long, equals
\* text when len(text) <= width, and is the first width - 1 characters plus
\* one ellipsis when len(text) > width >= 2.
C7_TruncateBound ==
    (fn_pc = "truncate" /\ fn_width >= 0) =>
        /\ Len(fn_out) <= fn_width
        /\ Len(fn_text) <= fn_width => fn_out = fn_text
        /\ (Len(fn_text) > fn_width /\ fn_width >= 2) =>
              /\ Len(fn_out) = fn_width
              /\ \A i \in 1..(fn_width - 1) : fn_out[i] = fn_text[i]
              /\ fn_out[fn_width] = "<ellipsis>"

\* C7 witness: a text longer than a width >= 2 was cut and marked.
C7_Witness ==
    /\ fn_pc = "truncate"
    /\ fn_width >= 2
    /\ Len(fn_text) > fn_width
    /\ fn_out[fn_width] = "<ellipsis>"
    /\ fn_text[fn_width] # "<ellipsis>"

\* C8 (as claimed): for every text, _truncate(text, 1) is exactly one ellipsis.
C8_WidthOneAlwaysEllipsis ==
    (fn_pc = "truncate" /\ fn_width = 1) => fn_out = <<"<ellipsis>">>

\* C8 (amended): for every text longer than one character, _truncate(text, 1)
\* is exactly one ellipsis; a text of at most one character is returned
\* unchanged.
C8_WidthOneEllipsisWhenLonger ==
    (fn_pc = "truncate" /\ fn_width = 1) =>
        fn_out = (IF Len(fn_text) > 1 THEN <<"<ellipsis>">> ELSE fn_text)

\* C8 witness: a text of two or more characters was truncated to width 1.
C8_Witness ==
    /\ fn_pc = "truncate"
    /\ fn_width = 1
    /\ Len(fn_text) > 1
    /\ fn_out = <<"<ellipsis>">>

\* C9: _split_completion_query(text) is ("", "") for empty text, (text, "")
\* for text ending in a space, else (text up to and including its last space,
\* the rest), with lead = "" when there is no space; so lead + fragment = text
\* and fragment holds no space.
C9_SplitAtLastSpace ==
    fn_pc = "split" =>
        LET lead == fn_out[1]
            fragment == fn_out[2]
            n == Len(fn_text)
            spaces == {i \in 1..n : fn_text[i] = " "}
        IN /\ Len(fn_out) = 2
           /\ fn_text = <<>> => (lead = <<>> /\ fragment = <<>>)
           /\ (n > 0 /\ fn_text[n] = " ") => (lead = fn_text /\ fragment = <<>>)
           /\ (n > 0 /\ fn_text[n] # " " /\ spaces = {}) =>
                 (lead = <<>> /\ fragment = fn_text)
           /\ (n > 0 /\ fn_text[n] # " " /\ spaces # {}) =>
                 \E p \in spaces :
                    /\ \A q \in spaces : q <= p
                    /\ lead = SubSeq(fn_text, 1, p)
                    /\ fragment = SubSeq(fn_text, p + 1, n)
           /\ lead \o fragment = fn_text
           /\ \A i \in 1..Len(fragment) : fragment[i] # " "

\* C9 witness: a text with two spaces and a trailing word was split at the
\* second space.
C9_Witness ==
    /\ fn_pc = "split"
    /\ fn_text = <<"a", " ", " ", "a">>
    /\ fn_out = << <<"a", " ", " ">>, <<"a">> >>

\* C10: from every reachable state, when the completer (if any) answers both
\* calls alike, a second filter_items() with no buffer change in between
\* leaves the filtered list and selected_index as the first call left them.
C10_FilterIdempotent ==
    \A outcome \in CompleterOutcomes :
        LET once == filter_items(Self, outcome)
            twice == filter_items(once, outcome)
        IN /\ twice.filtered_items = once.filtered_items
           /\ twice.selected_index = once.selected_index

\* C10 witness: a state in which the first of the two calls replaces the list
\* by a shorter non-empty one and lowers selected_index.
C10_Witness ==
    \E outcome \in CompleterOutcomes :
        LET once == filter_items(Self, outcome)
        IN /\ once.filtered_items # <<>>
           /\ once.filtered_items # filtered_items
           /\ once.selected_index < selected_index

\* C11: in the completer variant, a handler whose completer call raises ends
\* with an empty filtered list and selected_index 0, the buffer holding the
\* edit of that handler, and the session still Editing.
C11_CompleterRaiseIsAbsorbed ==
    [][raised' =>
          /\ completer
          /\ filtered_items' = <<>>
          /\ selected_index' = 0
          /\ status = "Editing" /\ status' = "Editing"
          /\ result' = result
          /\ consulted' = <<input_text'>>
          /\ CASE last_key' = "char" ->
                     \E c \in KeyChars : input_text' = input_text \o <<c>>
               [] last_key' = "backspace" ->
                     /\ input_text # <<>>
                     /\ input_text' = SubSeq(input_text, 1, Len(input_text) - 1)
               [] last_key' = "tab" ->
                     /\ filtered_items # <<>>
                     /\ input_text' = Highlighted
               [] OTHER -> FALSE]_vars

\* C11 witness: the completer raised on a backspace that left a non-blank
\* buffer; the list is empty and the session goes on.
C11_Witness ==
    /\ raised
    /\ last_key = "backspace"
    /\ Len(input_text) = 2
    /\ filtered_items = <<>>
    /\ selected_index = 0
    /\ status = "Editing"

\* C12: the session leaves Editing only by enter (to Accepted) or by the
\* interrupt key (to Cancelled, with no accepted string); the interrupt key
\* is handled in every Editing state, no other key ends the session, and
\* nothing happens once it has ended.
C12_ExitsOnlyByEnterOrInterrupt ==
    /\ [](status = "Editing" => ENABLED Interrupt)
    /\ [][/\ status = "Editing"
          /\ last_key' = "enter" => status' = "Accepted"
          /\ last_key' = "c-c" => (status' = "Cancelled" /\ result' = <<>>)
          /\ last_key' \in {"char", "backspace", "up", "down", "tab", "escape", "c-u"}
                => (status' = "Editing" /\ result' = <<>>)
          /\ last_key' \in {"enter", "c-c", "char", "backspace", "up", "down",
                            "tab", "escape", "c-u"}]_vars

\* C12 witness: the interrupt key cancelled a session that had a non-empty
\* buffer and a highlighted candidate below the first row.
C12_Witness ==
    /\ status = "Cancelled"
    /\ last_key = "c-c"
    /\ input_text # <<>>
    /\ selected_index > 0
    /\ result = <<>>

\* C13: every recompute (the handlers of a printable key, escape and c-u,
\* of backspace on a non-empty buffer and of tab on a non-empty list) leaves
\* selected_index = min(previous index, max(len(new list) - 1, 0)): never
\* higher than before, and unchanged when still inside the new list.
C13_RecomputeClampsIndex ==
    [][(\/ last_key' \in {"char", "escape", "c-u"}
        \/ (last_key' = "backspace" /\ input_text # <<>>)
        \/ (last_key' = "tab" /\ filtered_items # <<>>)) =>
          /\ selected_index' =
                (LET last == IF Len(filtered_items') >= 1
                             THEN Len(filtered_items') - 1 ELSE 0
                 IN IF selected_index <= last THEN selected_index ELSE last)
          /\ selected_index' <= selected_index
          /\ selected_index < Len(filtered_items') => selected_index' = selected_index]_vars

\* C13 witness: a backspace recomputed the list and the selection stayed on a
\* row that is neither the first nor the last of the new list.
C13_Witness ==
    /\ last_key = "backspace"
    /\ consulted # <<>>
    /\ selected_index >= 1
    /\ Len(filtered_items) > selected_index + 1

\* item holds the whole of text as a substring when case is ignored.
HoldsIgnoringCase(item, text) ==
    \E off \in 0..(Len(item) - Len(text)) :
        \A j \in 1..Len(text) : LowerChar(item[off + j]) = LowerChar(text[j])

\* The positions of choices whose item holds the raw buffer ignoring case.
MatchingPositions ==
    {k \in 1..Len(choices) : HoldsIgnoringCase(choices[k], input_text)}

\* C14: in the static variant with a non-whitespace buffer, the filtered list
\* is the subsequence of choices, in source order and with duplicates, of the
\* items that hold the whole raw buffer (spaces included) ignoring case.
C14_StaticFilterIsSubsequence ==
    (~completer /\ ~OnlyWhitespace(input_text)) =>
        /\ Len(filtered_items) = Cardinality(MatchingPositions)
        /\ \A j \in 1..Len(filtered_items) :
              \E k \in MatchingPositions :
                 /\ Cardinality({m \in MatchingPositions : m <= k}) = j
                 /\ filtered_items[j] = choices[k]

\* C14 witness: the buffer "B" selects "bb", "ab", "bb" from a list that also
\* holds an empty string: case is ignored, order and the duplicate are kept.
C14_Witness ==
    /\ ~completer
    /\ input_text = <<"B">>
    /\ filtered_items = << <<"b", "b">>, <<"a", "b">>, <<"b", "b">> >>
    /\ Len(choices) = 4

\* C15: up and down move selected_index by exactly 1 toward the start or the
\* end of the list, keep it at 0 or len - 1 when it is already there, do
\* nothing on an empty list, and in every case leave the buffer and the
\* filtered list as they were, with no completer call.
C15_UpDownMoveByOne ==
    [][last_key' \in {"up", "down"} =>
          /\ input_text' = input_text
          /\ filtered_items' = filtered_items
          /\ consulted' = <<>>
          /\ status' = "Editing"
          /\ selected_index' =
                (IF filtered_items = <<>> THEN selected_index
                 ELSE IF last_key' = "up"
                      THEN (IF selected_index = 0 THEN 0 ELSE selected_index - 1)
                      ELSE (IF selected_index = Len(filtered_items) - 1
                            THEN selected_index ELSE selected_index + 1))]_vars

\* C15 witness: down has moved the selection to the third row of a list from
\* the completer without changing the list.
C15_Witness ==
    /\ last_key = "down"
    /\ completer
    /\ selected_index = 2
    /\ Len(filtered_items) = 3

\* C16: escape and c-u are handled in every Editing state and leave the
\* session Editing with an empty buffer, an empty filtered list and
\* selected_index 0, whatever these were before.
C16_ClearEmptiesEverything ==
    /\ [](status = "Editing" => (ENABLED Escape /\ ENABLED ClearLine))
    /\ [][last_key' \in {"escape", "c-u"} =>
             /\ status = "Editing" /\ status' = "Editing"
             /\ input_text' = <<>>
             /\ filtered_items' = <<>>
             /\ selected_index' = 0
             /\ result' = <<>>]_vars

\* C16 witness: c-u has just cleared the session, which is still Editing.
C16_Witness ==
    /\ last_key = "c-u"
    /\ status = "Editing"
    /\ input_text = <<>>
    /\ filtered_items = <<>>
    /\ selected_index = 0

\* C17: in every reachable state of both variants every element of the
\* filtered list is a non-empty string.
C17_CandidatesNonEmpty ==
    \A i \in 1..Len(filtered_items) : Len(filtered_items[i]) >= 1

\* C17 witness: the completer returned "ab", "", "a b", "ab" and the list
\* holds the three non-empty strings.
C17_Witness ==
    /\ completer
    /\ consulted # <<>>
    /\ filtered_items = << <<"a", "b">>, <<"a", " ", "b">>, <<"a", "b">> >>

\* C18 (as claimed): bash_completer returns an empty list whenever the
\* subprocess fails, that is when bash cannot be launched or exits with a
\* non-zero status, whatever it wrote to its standard output.
C18_FailedSubprocessNoCandidates ==
    (fn_pc = "bash" /\ (fn_proc.launch # "ok" \/ fn_proc.returncode # 0)) =>
        fn_out = <<>>

\* The choices that hold the buffer ignoring case, in source order; none for
\* an empty or whitespace-only buffer.
FreshStaticList ==
    IF OnlyWhitespace(input_text) THEN <<>>
    ELSE [j \in 1..Cardinality(MatchingPositions) |->
            choices[CHOOSE k \in MatchingPositions :
                       Cardinality({m \in MatchingPositions : m <= k}) = j]]

\* C19: in the static variant the filtered list is never stale: in every
\* reachable state, whatever keys led to it, it equals the choices filtered
\* by the current buffer.
C19_StaticListNeverStale ==
    ~completer => filtered_items = FreshStaticList

\* C19 witness: a backspace widened the static list to all four choices.
C19_Witness ==
    /\ ~completer
    /\ last_key = "backspace"
    /\ input_text # <<>>
    /\ Len(filtered_items) = 4

\* C20 (as claimed): whenever the Suggestions panel is drawn with at least one
\* row, exactly one row carries the selected marker and the selected-line
\* style, and it is the row of the highlighted candidate.
C20_HighlightedRowIsShown ==
    (input_text # <<>> /\ filtered_items # <<>> /\ max_rows >= 1) =>
        LET panel == render_panel(Self)
            marked == {k \in 1..Len(panel) : panel[k][1] = "class:selected-line"}
        IN /\ Cardinality(marked) = 1
           /\ \A k \in marked :
                 /\ SubSeq(panel[k][2], 1, 2) = <<"<marker>", " ">>
                 /\ SubSeq(panel[k][2], 3, 2 + Len(Highlighted)) = Highlighted

====
